---------------------------- MODULE Spec2Model ----------------------------
(***************************************************************************)
(* State-machine model of the langfuse dashboard client:                   *)
(*   src/static/js/notifications.js  (NotificationManager, toast API)      *)
(*   src/static/js/app.js            (dashboard controller)                *)
(*                                                                         *)
(* JavaScript runs one handler at a time, so every action below is one     *)
(* whole handler or callback: a direct API call, a DOM event listener, a   *)
(* setTimeout callback, or the continuation of an await.                   *)
(***************************************************************************)
EXTENDS Integers, Sequences, FiniteSets, TLC

(***************************************************************************)
(* Bounds of the model.                                                    *)
(***************************************************************************)
\* direct show() calls explored by the notification specification
MaxShows == 6
\* load-button clicks explored by the dashboard specification
MaxClicks == 2
\* length of the longest trace list a response carries (three table pages)
MaxItems == 21
\* length of the longest content of the limit input
MaxLimitLen == 3
\* timers (auto-dismiss and removal) that may be pending when a user event
\* (a show call, a close click, dismissAll) adds another one
MaxTimers == 2
\* show calls explored by the specification of the titles
MaxTitleShows == 3
\* largest page number handed to updatePaginationControls
MaxPage == 4

(***************************************************************************)
(* Program constants.                                                      *)
(***************************************************************************)
maxNotifications == 5
DefaultDuration == 5000
ROWS_PER_PAGE == 10
MAX_LIMIT == 200
DEFAULT_LIMIT == 50

Types == {"success", "error", "warning", "info"}
\* stand-in for the JavaScript null passed as a title
NullTitle == "<null>"
\* durations a caller passes: 0 (persistent) or a positive number of ms
Durations == {0, DefaultDuration}
\* who called dismiss(): the auto-dismiss timer, the close control,
\* dismissAll(), or show() making room
Causes == {"auto", "close", "dismissAll", "evict"}

VARIABLES
    notifications,  \* this.notifications: tracked element ids, oldest first
    container,      \* children of the .notification-container element
    elems,          \* every element created so far, indexed by id
    removalQueue,   \* pending 300 ms removal timers, in firing order: the element
                    \* and (history) the caller of the dismiss() that set the timer
    allItems,       \* app.js state: the trace list held in memory
    currentPage,    \* app.js state: 1-based page of the table
    isLoading,      \* app.js state: a load is in flight
    latencyChart,   \* app.js state: the time-series Chart instance (id 0: null)
    modelChart,     \* app.js state: the per-model Chart instance (id 0: null)
    dom,            \* the document: inputs, button, KPI, table, pagination, chart area
    pc,             \* where onLoadClick is suspended: idle, awaitFetch, awaitJson
    fetchLimit,     \* the limit argument of the fetchTraces call in flight (else 0)
    response,       \* the Response whose json() is awaited
    hist            \* history: counters and snapshots the properties refer to

dvars == <<allItems, currentPage, isLoading, latencyChart, modelChart, dom, pc,
           fetchLimit, response, hist>>
vars == <<notifications, container, elems, removalQueue, allItems, currentPage,
          isLoading, latencyChart, modelChart, dom, pc, fetchLimit, response, hist>>

(***************************************************************************)
(* Sequence helpers (Array.prototype.indexOf / splice / removeChild).      *)
(***************************************************************************)
Range(s) == {s[i] : i \in 1..Len(s)}

\* Array.prototype.indexOf, 0-based, -1 when absent
IndexOf(s, x) ==
    IF x \in Range(s)
    THEN (CHOOSE i \in 1..Len(s) : s[i] = x /\ \A j \in 1..(i - 1) : s[j] # x) - 1
    ELSE -1

\* s.splice(index, 1) for a 0-based index; a negative index counts from the end
Splice1(s, index) ==
    LET at == IF index < 0 THEN Len(s) + index + 1 ELSE index + 1
    IN  IF at < 1 \/ at > Len(s) THEN s
        ELSE [i \in 1..(Len(s) - 1) |-> IF i < at THEN s[i] ELSE s[i + 1]]

\* parent.removeChild(x)
RemoveChild(s, x) == Splice1(s, IndexOf(s, x))

(***************************************************************************)
(* NotificationManager                                                     *)
(***************************************************************************)
getDefaultTitle(type) ==
    CASE type = "success" -> "Success"
      [] type = "error"   -> "Error"
      [] type = "warning" -> "Warning"
      [] type = "info"    -> "Information"
      [] OTHER            -> "Notification"

\* createNotification: the element, before it is attached.  !title holds for
\* null and for the empty string.  The message text is not part of the model.
createNotification(message, type, title, duration) ==
    [ type      |-> type,
      title     |-> IF title = NullTitle \/ title = "" THEN getDefaultTitle(type) ELSE title,
      duration  |-> duration,       \* the duration argument it was shown with
      progress  |-> duration > 0,   \* has a .notification-progress bar
      slideOut  |-> FALSE,          \* classList contains 'slide-out'
      autoTimer |-> FALSE,          \* auto-dismiss setTimeout pending
      removals  |-> 0 ]             \* history: times spliced out of this.notifications

\* notification.parentElement is set
Attached(ns, n) == n \in Range(ns.container)

\* dismiss(notification): starts the exit transition and schedules the removal.
\* n = 0 stands for a null/undefined argument.
Dismiss(ns, n, cause) ==
    IF n = 0 \/ ~Attached(ns, n) THEN ns
    ELSE [ns EXCEPT !.elems[n].slideOut = TRUE,
                    !.removalQueue = Append(@, [el |-> n, by |-> cause])]

\* mutant of RemovalCallback: splice without the index > -1 test
RemovalCallbackNoIndexCheck(ns, n) ==
    LET index == IndexOf(ns.notifications, n)
    IN  [ns EXCEPT !.container = IF Attached(ns, n) THEN RemoveChild(@, n) ELSE @,
                   !.notifications = Splice1(@, index),
                   !.elems[n].removals = @ + 1]

\* mutant of RemovalCallback: the element is detached but stays tracked
RemovalCallbackDetachOnly(ns, n) ==
    [ns EXCEPT !.container = IF Attached(ns, n) THEN RemoveChild(@, n) ELSE @]

\* the callback dismiss() hands to setTimeout(..., 300)
RemovalCallback(ns, n) ==
    LET index == IndexOf(ns.notifications, n)
    IN  [ns EXCEPT !.container = IF Attached(ns, n) THEN RemoveChild(@, n) ELSE @,
                   !.notifications = IF index > -1 THEN Splice1(@, index) ELSE @,
                   !.elems[n].removals = IF index > -1 THEN @ + 1 ELSE @]

\* mutant of AutoDismissScheduled: a timer also for duration 0
AutoDismissAlways(duration) == duration >= 0

\* setTimeout(() => this.dismiss(notification), duration) is set iff duration > 0
AutoDismissScheduled(duration) == duration > 0

\* mutant of Show: the newest element is dismissed to make room
ShowEvictsNewest(ns, message, type, title, duration) ==
    LET evicted == IF Len(ns.notifications) >= maxNotifications
                   THEN Dismiss(ns, ns.notifications[Len(ns.notifications)], "evict")
                   ELSE ns
        id == Len(ns.elems) + 1
        el == createNotification(message, type, title, duration)
    IN  [ container     |-> Append(evicted.container, id),
          notifications |-> Append(evicted.notifications, id),
          elems         |-> Append(evicted.elems,
                                   [el EXCEPT !.autoTimer = duration > 0]),
          removalQueue  |-> evicted.removalQueue ]

\* show(message, type, title, duration)
Show(ns, message, type, title, duration) ==
    LET evicted == IF Len(ns.notifications) >= maxNotifications
                   THEN Dismiss(ns, ns.notifications[1], "evict")
                   ELSE ns
        id == Len(ns.elems) + 1
        el == createNotification(message, type, title, duration)
    IN  [ container     |-> Append(evicted.container, id),
          notifications |-> Append(evicted.notifications, id),
          elems         |-> Append(evicted.elems,
                                   [el EXCEPT !.autoTimer = AutoDismissScheduled(duration)]),
          removalQueue  |-> evicted.removalQueue ]

\* dismissAll(): dismiss every element of a copy of the tracking list
RECURSIVE DismissEach(_, _)
DismissEach(ns, list) ==
    IF list = <<>> THEN ns
    ELSE DismissEach(Dismiss(ns, Head(list), "dismissAll"), Tail(list))

DismissAll(ns) == DismissEach(ns, ns.notifications)

\* global convenience functions
showNotification(ns, message, type, title, duration) == Show(ns, message, type, title, duration)
showSuccess(ns, message) == Show(ns, message, "success", "Success", DefaultDuration)
showError(ns, message)   == Show(ns, message, "error", "Error", DefaultDuration)
showWarning(ns, message) == Show(ns, message, "warning", "Warning", DefaultDuration)
showInfo(ns, message)    == Show(ns, message, "info", "Info", DefaultDuration)
getNotificationCount     == Len(notifications)

\* the notification manager's state as one value
NS == [notifications |-> notifications, container |-> container, elems |-> elems,
       removalQueue |-> removalQueue]

\* elements with a removal timer pending
Queued(q) == {q[i].el : i \in 1..Len(q)}

\* An element that is in neither the document nor the tracking list and that no
\* pending timer refers to can never be reached again: its record is reduced
\* to its history.
Reachable(ns, n) ==
    \/ n \in Range(ns.container)
    \/ n \in Range(ns.notifications)
    \/ n \in Queued(ns.removalQueue)
    \/ ns.elems[n].autoTimer

Collect(ns) ==
    [n \in 1..Len(ns.elems) |->
        IF Reachable(ns, n) THEN ns.elems[n]
        ELSE [ns.elems[n] EXCEPT !.type = "", !.title = "",
                                 !.duration = -1, !.progress = FALSE]]

SetNS(ns) ==
    /\ notifications' = ns.notifications
    /\ container' = ns.container
    /\ elems' = Collect(ns)
    /\ removalQueue' = ns.removalQueue

NotifInit ==
    /\ notifications = <<>>
    /\ container = <<>>
    /\ elems = <<>>
    /\ removalQueue = <<>>

(***************************************************************************)
(* Notification events.                                                    *)
(***************************************************************************)
PendingTimers ==
    Len(removalQueue) + Cardinality({n \in 1..Len(elems) : elems[n].autoTimer})

\* a page script calls showNotification(message, type, title, duration)
ApiShow ==
    /\ Len(elems) < MaxShows
    /\ PendingTimers < MaxTimers
    /\ \E duration \in Durations :
          SetNS(showNotification(NS, "msg", "info", NullTitle, duration))
    /\ UNCHANGED dvars

\* the auto-dismiss timer of element n fires
AutoDismissTimer ==
    \E n \in 1..Len(elems) :
       /\ elems[n].autoTimer
       /\ SetNS(Dismiss([NS EXCEPT !.elems[n].autoTimer = FALSE], n, "auto"))
       /\ UNCHANGED dvars

\* the user clicks the close control of an element in the document
CloseClick ==
    \E n \in Range(container) :
       /\ PendingTimers < MaxTimers
       /\ SetNS(Dismiss(NS, n, "close"))
       /\ UNCHANGED dvars

\* a page script calls dismissAllNotifications()
ApiDismissAll ==
    /\ notifications # <<>>
    /\ PendingTimers + Len(notifications) <= MaxTimers
    /\ SetNS(DismissAll(NS))
    /\ UNCHANGED dvars

\* the oldest 300 ms removal timer fires (the exit transition is over); timers
\* of equal delay fire in the order they were set
RemovalTimer ==
    /\ removalQueue # <<>>
    /\ SetNS(RemovalCallback([NS EXCEPT !.removalQueue = Tail(@)], Head(removalQueue).el))
    /\ UNCHANGED dvars

NotifNext ==
    \/ ApiShow
    \/ AutoDismissTimer
    \/ CloseClick
    \/ ApiDismissAll
    \/ RemovalTimer

\* titles a caller passes to showNotification: none (the parameter defaults to
\* null) or a text of its own
Titles == {NullTitle, "Custom"}

\* a page script calls showNotification(message, type, title, duration) with
\* any type, with or without a title
ApiShowTyped ==
    /\ Len(elems) < MaxTitleShows
    /\ PendingTimers < MaxTimers
    /\ \E type \in Types, title \in Titles, duration \in Durations :
          SetNS(showNotification(NS, "msg", type, title, duration))
    /\ UNCHANGED dvars

\* a page script calls showSuccess(message)
ApiShowSuccess ==
    /\ Len(elems) < MaxTitleShows
    /\ PendingTimers < MaxTimers
    /\ SetNS(showSuccess(NS, "msg"))
    /\ UNCHANGED dvars

\* a page script calls showError(message)
ApiShowError ==
    /\ Len(elems) < MaxTitleShows
    /\ PendingTimers < MaxTimers
    /\ SetNS(showError(NS, "msg"))
    /\ UNCHANGED dvars

\* a page script calls showWarning(message)
ApiShowWarning ==
    /\ Len(elems) < MaxTitleShows
    /\ PendingTimers < MaxTimers
    /\ SetNS(showWarning(NS, "msg"))
    /\ UNCHANGED dvars

\* a page script calls showInfo(message)
ApiShowInfo ==
    /\ Len(elems) < MaxTitleShows
    /\ PendingTimers < MaxTimers
    /\ SetNS(showInfo(NS, "msg"))
    /\ UNCHANGED dvars

TitleNext ==
    \/ ApiShowTyped
    \/ ApiShowSuccess
    \/ ApiShowError
    \/ ApiShowWarning
    \/ ApiShowInfo
    \/ AutoDismissTimer
    \/ RemovalTimer

(***************************************************************************)
(* Dashboard controller (app.js): data                                     *)
(***************************************************************************)
\* A trace record.  kind "ok": every field well formed; "noTime": time is
\* missing; "badContent": input_content is present but is not a string (a
\* number or an object), so that .slice is not a function.  day is the UTC
\* day of time; model "" stands for a missing model.
Trace(kind, day, model) == [kind |-> kind, day |-> day, model |-> model]

\* n traces, all well formed except that position pos (0: none) has kind `kind`
TraceList(n, pos, kind) ==
    [i \in 1..n |-> Trace(IF i = pos THEN kind ELSE "ok",
                          1 + (i % 2),
                          IF i % 3 = 0 THEN "" ELSE "gpt-4")]

\* the trace lists the server answers with
TraceLists ==
    { TraceList(0, 0, "ok"),
      TraceList(1, 1, "noTime"),
      TraceList(2, 1, "badContent"),
      TraceList(ROWS_PER_PAGE + 1, 0, "ok"),
      TraceList(MaxItems, ROWS_PER_PAGE + 1, "badContent") }

\* the JSON document of a response: a bare array, an object with or without a
\* traces key, the value null, or text that is not JSON
Bodies ==
    {[shape |-> "array", traces |-> l] : l \in TraceLists}
    \cup {[shape |-> sh, traces |-> TraceList(1, 1, "noTime")] : sh \in {"wrapped"}}
    \cup {[shape |-> sh, traces |-> <<>>] : sh \in {"object", "null", "invalid"}}

Responses ==
    {[ok |-> TRUE, status |-> 200, body |-> b] : b \in Bodies}
    \cup {[ok |-> FALSE, status |-> 500, body |-> [shape |-> "invalid", traces |-> <<>>]]}

NoResponse == [ok |-> FALSE, status |-> 0, body |-> [shape |-> "invalid", traces |-> <<>>]]

(***************************************************************************)
(* The limit input: its value is a string, modelled as a sequence of        *)
(* one-character strings.                                                  *)
(***************************************************************************)
DigitChars == <<"0", "1", "2", "3", "4", "5", "6", "7", "8", "9">>
IsDigit(c) == \E d \in 1..10 : DigitChars[d] = c
DigitValue(c) == (CHOOSE d \in 1..10 : DigitChars[d] = c) - 1
LimitChars == {"0", "1", "2", "5", "-", "a", " ", "."}
LimitInputs == UNION {[1..n -> LimitChars] : n \in 0..MaxLimitLen}
\* what the user types into the limit input in the dashboard specification
LimitSamples == {<<"5", "0">>, <<"a", "b", "c">>}

RECURSIVE SkipWhiteSpace(_)
SkipWhiteSpace(s) ==
    IF s # <<>> /\ Head(s) = " " THEN SkipWhiteSpace(Tail(s)) ELSE s

RECURSIVE DigitPrefix(_)
DigitPrefix(s) ==
    IF s # <<>> /\ IsDigit(Head(s)) THEN <<Head(s)>> \o DigitPrefix(Tail(s)) ELSE <<>>

RECURSIVE DigitsValue(_)
DigitsValue(s) ==
    IF s = <<>> THEN 0
    ELSE 10 * DigitsValue(SubSeq(s, 1, Len(s) - 1)) + DigitValue(s[Len(s)])

NaN == [isNaN |-> TRUE, value |-> 0]

\* parseInt(string, 10): leading white space is skipped, a sign is read, then
\* the longest run of digits; what follows is ignored; NaN without a digit
parseInt(s) ==
    LET t == SkipWhiteSpace(s)
        signed == t # <<>> /\ Head(t) \in {"-", "+"}
        d == DigitPrefix(IF signed THEN Tail(t) ELSE t)
    IN  IF d = <<>> THEN NaN
        ELSE [isNaN |-> FALSE,
              value |-> IF signed /\ Head(t) = "-" THEN 0 - DigitsValue(d) ELSE DigitsValue(d)]

\* String(n) for an integer n >= 0
RECURSIVE String(_)
String(n) ==
    IF n < 10 THEN <<DigitChars[n + 1]>>
    ELSE String(n \div 10) \o <<DigitChars[(n % 10) + 1]>>

\* the condition of the correction branch of onLoadClick
LimitRejected(limit) == limit.isNaN \/ limit.value < 1 \/ limit.value > MAX_LIMIT

(***************************************************************************)
(* Rendering.  A render function takes and returns the view v: the document, *)
(* the two chart instances, the history, and error: the message of the      *)
(* exception thrown so far ("" when none); after a throw the remaining      *)
(* statements do not run.                                                  *)
(***************************************************************************)
Ceil(a, b) == (a + b - 1) \div b

\* Array.prototype.slice(start, end) for 0-based start <= end
Slice(s, start, end) ==
    LET lo == IF start > Len(s) THEN Len(s) ELSE start
        hi == IF end > Len(s) THEN Len(s) ELSE end
    IN  SubSeq(s, lo + 1, hi)

RECURSIVE SortedSeq(_)
SortedSeq(S) ==
    IF S = {} THEN <<>>
    ELSE LET m == CHOOSE x \in S : \A y \in S : x <= y
         IN  <<m>> \o SortedSeq(S \ {m})

RECURSIVE Distinct(_)
Distinct(s) ==
    IF s = <<>> THEN <<>>
    ELSE LET init == Distinct(SubSeq(s, 1, Len(s) - 1))
         IN  IF s[Len(s)] \in Range(init) THEN init ELSE Append(init, s[Len(s)])

updateKpis(v, items) ==
    IF v.error # "" THEN v
    ELSE [v EXCEPT !.dom.kpiTotal = Len(items), !.hist.rendered = items]

\* mutant of updatePaginationControls: the next button is disabled only
\* beyond the last page
updatePaginationControlsNextOffByOne(v, totalItems, page, perPage) ==
    LET totalPages == Ceil(totalItems, perPage)
    IN  IF totalItems = 0 \/ totalPages <= 1
        THEN [v EXCEPT !.dom.paginationHidden = TRUE]
        ELSE [v EXCEPT !.dom.paginationHidden = FALSE,
                       !.dom.pageInfo = <<page, totalPages>>,
                       !.dom.prevDisabled = page <= 1,
                       !.dom.nextDisabled = page > totalPages]

updatePaginationControls(v, totalItems, page, perPage) ==
    LET totalPages == Ceil(totalItems, perPage)
    IN  IF totalItems = 0 \/ totalPages <= 1
        THEN [v EXCEPT !.dom.paginationHidden = TRUE]
        ELSE [v EXCEPT !.dom.paginationHidden = FALSE,
                       !.dom.pageInfo = <<page, totalPages>>,
                       !.dom.prevDisabled = page <= 1,
                       !.dom.nextDisabled = page >= totalPages]

\* the rows are appended one by one; building the input cell of a badContent
\* record throws a TypeError before its row is appended
updateTable(v, items, page, perPage) ==
    IF v.error # "" THEN v
    ELSE LET start == (page - 1) * perPage
             pageItems == Slice(items, start, start + perPage)
             bad == {i \in 1..Len(pageItems) : pageItems[i].kind = "badContent"}
             firstBad == IF bad = {} THEN 0
                         ELSE CHOOSE i \in bad : \A j \in bad : i <= j
         IN  IF firstBad # 0
             THEN [v EXCEPT !.dom.tableRows = SubSeq(pageItems, 1, firstBad - 1),
                            !.hist.rendered = items,
                            !.error = "slice is not a function"]
             ELSE updatePaginationControls(
                      [v EXCEPT !.dom.tableRows = pageItems, !.hist.rendered = items],
                      Len(items), page, perPage)

\* groupByDay: the days of the records that have a time, ascending
groupByDay(items) ==
    LET withTime == {i \in 1..Len(items) : items[i].kind # "noTime"}
        days == {items[i].day : i \in withTime}
        sorted == SortedSeq(days)
    IN  [k \in 1..Len(sorted) |->
            [date |-> sorted[k],
             count |-> Cardinality({i \in withTime : items[i].day = sorted[k]})]]

\* buildSeriesByMetric; of the data only the total-calls series is computed
buildSeriesByMetric(days, metric) ==
    LET labels == [k \in 1..Len(days) |-> days[k].date]
    IN  CASE metric = "avgLatency"  -> [labels |-> labels, points |-> Len(days),
                                        label |-> "Average latency (ms) per day"]
          [] metric = "totalCalls"  -> [labels |-> labels, points |-> Len(days),
                                        label |-> "Total calls per day"]
          [] metric = "totalTokens" -> [labels |-> labels, points |-> Len(days),
                                        label |-> "Total tokens per day"]
          [] OTHER                  -> [labels |-> labels, points |-> 0,
                                        label |-> "Unknown Metric"]

NoChart == [id |-> 0, labels |-> <<>>, points |-> 0, label |-> ""]

\* mutant of updateChart: a new Chart is constructed on every non-empty call
updateChartAlwaysRebuilds(v, items) ==
    IF v.error # "" THEN v
    ELSE LET called == [v EXCEPT !.hist.rendered = items,
                                 !.hist.chartCall = 1 - @,
                                 !.hist.lastChartArg = IF items = <<>> THEN "empty" ELSE "nonempty"]
             series == buildSeriesByMetric(groupByDay(items), v.dom.yMetric)
         IN  IF Len(items) = 0
             THEN [called EXCEPT !.latencyChart = NoChart, !.dom.chartsHidden = TRUE]
             ELSE [called EXCEPT !.latencyChart = [id |-> v.hist.chartsBuilt + 1,
                                                   labels |-> series.labels,
                                                   points |-> series.points,
                                                   label |-> series.label],
                                 !.hist.chartsBuilt = @ + 1,
                                 !.dom.chartsHidden = FALSE]

\* updateChart(items): metricOverride is never passed
updateChart(v, items) ==
    IF v.error # "" THEN v
    ELSE LET called == [v EXCEPT !.hist.rendered = items,
                                 !.hist.chartCall = 1 - @,
                                 !.hist.lastChartArg = IF items = <<>> THEN "empty" ELSE "nonempty"]
             series == buildSeriesByMetric(groupByDay(items), v.dom.yMetric)
         IN  IF Len(items) = 0
             THEN [called EXCEPT !.latencyChart = NoChart, !.dom.chartsHidden = TRUE]
             ELSE IF v.latencyChart.id = 0
             THEN [called EXCEPT !.latencyChart = [id |-> v.hist.chartsBuilt + 1,
                                                   labels |-> series.labels,
                                                   points |-> series.points,
                                                   label |-> series.label],
                                 !.hist.chartsBuilt = @ + 1,
                                 !.dom.chartsHidden = FALSE]
             ELSE [called EXCEPT !.latencyChart.labels = series.labels,
                                 !.latencyChart.points = series.points,
                                 !.latencyChart.label = series.label,
                                 !.dom.chartsHidden = FALSE]

\* buildModelChartSeries: the sorted days and one dataset per model
buildModelChartSeries(items) ==
    LET withTime == SelectSeq(items, LAMBDA x : x.kind # "noTime")
    IN  [labels |-> SortedSeq({withTime[i].day : i \in 1..Len(withTime)}),
         datasets |-> Distinct([i \in 1..Len(withTime) |->
                                   IF withTime[i].model = "" THEN "Unknown"
                                   ELSE withTime[i].model])]

ModelMetricLabel(metric) ==
    CASE metric = "tokens"     -> "Tokens"
      [] metric = "avgLatency" -> "Avg Latency (ms)"
      [] OTHER                 -> "Calls"

NoModelChart == [id |-> 0, labels |-> <<>>, datasets |-> <<>>, yTitle |-> ""]

updateModelChart(v, items) ==
    IF v.error # "" THEN v
    ELSE LET called == [v EXCEPT !.hist.rendered = items]
             series == buildModelChartSeries(items)
             chart == [id |-> IF v.modelChart.id = 0 THEN v.hist.chartsBuilt + 1
                              ELSE v.modelChart.id,
                       labels |-> series.labels,
                       datasets |-> series.datasets,
                       yTitle |-> ModelMetricLabel(v.dom.modelMetric)]
         IN  IF Len(items) = 0
             THEN [called EXCEPT !.modelChart = NoModelChart, !.dom.chartsHidden = TRUE]
             ELSE [called EXCEPT !.modelChart = chart,
                                 !.hist.chartsBuilt = IF v.modelChart.id = 0 THEN @ + 1 ELSE @,
                                 !.dom.chartsHidden = FALSE]

View == [dom |-> dom, latencyChart |-> latencyChart, modelChart |-> modelChart,
         hist |-> hist, error |-> ""]

SetView(v) ==
    /\ dom' = v.dom
    /\ latencyChart' = v.latencyChart
    /\ modelChart' = v.modelChart
    /\ hist' = v.hist

(***************************************************************************)
(* Dashboard controller: state and events                                  *)
(***************************************************************************)
NoLoad == [items |-> <<>>, page |-> 0]

\* The page as loaded.  The markup is not part of the repository; the model
\* takes the usual one: hidden pagination and chart area, a "Load" button, the
\* default limit in the limit input, the first option of each metric select.
DashInitWith(limitValue) ==
    /\ allItems = <<>>
    /\ currentPage = 1
    /\ isLoading = FALSE
    /\ latencyChart = NoChart
    /\ modelChart = NoModelChart
    /\ dom = [ limitValue       |-> limitValue,
               btnText          |-> "Load",
               btnDisabled      |-> FALSE,
               yMetric          |-> "avgLatency",
               modelMetric      |-> "calls",
               kpiTotal         |-> 0,
               tableRows        |-> <<>>,
               paginationHidden |-> TRUE,
               pageInfo         |-> <<0, 0>>,
               prevDisabled     |-> FALSE,
               nextDisabled     |-> FALSE,
               chartsHidden     |-> TRUE ]
    /\ pc = "idle"
    /\ fetchLimit = 0
    /\ response = NoResponse
    /\ hist = [ loadClicks   |-> 0,        \* calls of onLoadClick
                fetchCount   |-> 0,        \* requests issued by fetchTraces
                loadStart    |-> NoLoad,   \* allItems and currentPage when the load in flight began
                rendered     |-> <<>>,     \* the list the last render function received
                chartCall    |-> 0,        \* flips at every call of updateChart
                lastChartArg |-> "none",   \* whether the last updateChart call got an empty list
                chartsBuilt  |-> 0,        \* Chart instances constructed
                navigated    |-> FALSE ]   \* a page button was clicked during the last load

DashInit == DashInitWith(String(DEFAULT_LIMIT))

\* mutant of Finally: the button stays disabled
FinallyKeepsDisabled(v) ==
    [v EXCEPT !.dom.btnText = "Load", !.hist.loadStart = NoLoad]

\* the finally block of onLoadClick, and the end of the async function
Finally(v) ==
    [v EXCEPT !.dom.btnText = "Load", !.dom.btnDisabled = FALSE,
              !.hist.loadStart = NoLoad]

\* the catch block followed by the finally block
CatchFinally(message) ==
    /\ SetNS(showError(NS, message))
    /\ SetView(Finally(View))
    /\ isLoading' = FALSE
    /\ pc' = "idle"
    /\ fetchLimit' = 0
    /\ response' = NoResponse

\* mutant of LoadRejected: no guard
LoadRejectedNever == FALSE

\* the guard at the head of onLoadClick
LoadRejected == isLoading

\* onLoadClick up to its first suspension: the guard, the limit correction,
\* the button, showInfo, and fetchTraces up to `await fetch(...)`
OnLoadClick ==
    /\ hist.loadClicks < MaxClicks
    /\ IF LoadRejected
       THEN /\ SetNS(showWarning(NS, "Already loading..."))
            /\ hist' = [hist EXCEPT !.loadClicks = @ + 1]
            /\ UNCHANGED <<allItems, currentPage, isLoading, latencyChart, modelChart,
                           dom, pc, fetchLimit, response>>
       ELSE LET parsed == parseInt(dom.limitValue)
                reset == LimitRejected(parsed)
                limit == IF reset THEN DEFAULT_LIMIT ELSE parsed.value
                warned == IF reset THEN showWarning(NS, "Limit reset to 50") ELSE NS
            IN  /\ SetNS(showInfo(warned, "Loading traces..."))
                /\ dom' = [dom EXCEPT !.limitValue = IF reset THEN String(DEFAULT_LIMIT) ELSE @,
                                      !.btnText = "Loading...",
                                      !.btnDisabled = TRUE]
                /\ isLoading' = TRUE
                /\ pc' = "awaitFetch"
                /\ fetchLimit' = limit
                /\ hist' = [hist EXCEPT !.loadClicks = @ + 1,
                                        !.fetchCount = @ + 1,
                                        !.loadStart = [items |-> allItems, page |-> currentPage],
                                        !.navigated = FALSE]
                /\ UNCHANGED <<allItems, currentPage, latencyChart, modelChart, response>>

\* fetch() rejects: a transport-level failure
FetchRejected ==
    /\ pc = "awaitFetch"
    /\ CatchFinally("Failed to fetch")
    /\ UNCHANGED <<allItems, currentPage>>

\* fetch() resolves with a Response: fetchTraces throws on a non-success status
\* and otherwise awaits res.json()
FetchResponded ==
    /\ pc = "awaitFetch"
    /\ \E res \in Responses :
          IF ~res.ok
          THEN /\ CatchFinally("Failed to fetch traces: " \o ToString(res.status))
               /\ UNCHANGED <<allItems, currentPage>>
          ELSE /\ pc' = "awaitJson"
               /\ response' = res
               /\ UNCHANGED <<notifications, container, elems, removalQueue, allItems,
                              currentPage, isLoading, latencyChart, modelChart, dom,
                              fetchLimit, hist>>

\* the list fetchTraces returns for a parsed document
TracesOf(body) == IF body.shape \in {"array", "wrapped"} THEN body.traces ELSE <<>>

\* mutant of RenderLoaded: the render functions run before the assignment and
\* read the list held so far
RenderLoadedBeforeAssign(v, items) ==
    updateModelChart(updateChart(updateTable(updateKpis(v, allItems), allItems, 1,
                                             ROWS_PER_PAGE), allItems), allItems)

\* the render statements of the try block, after `allItems = items` and
\* `currentPage = 1`
RenderLoaded(v, items) ==
    updateModelChart(updateChart(updateTable(updateKpis(v, items), items, 1, ROWS_PER_PAGE),
                                 items), items)

\* mutant of JsonSettled: the new list is stored without `currentPage = 1`
JsonSettledKeepsPage ==
    /\ pc = "awaitJson"
    /\ CASE response.body.shape = "invalid" ->
              /\ CatchFinally("Unexpected token")
              /\ UNCHANGED <<allItems, currentPage>>
         [] response.body.shape = "null" ->
              /\ CatchFinally("Cannot read properties of null")
              /\ UNCHANGED <<allItems, currentPage>>
         [] OTHER ->
              LET items == TracesOf(response.body)
                  v == RenderLoaded(View, items)
              IN  /\ allItems' = items
                  /\ currentPage' = currentPage
                  /\ SetView(Finally(v))
                  /\ SetNS(IF v.error # ""
                           THEN showError(NS, v.error)
                           ELSE showSuccess(NS, "Loaded " \o ToString(Len(items)) \o " traces"))
                  /\ isLoading' = FALSE
                  /\ pc' = "idle"
                  /\ fetchLimit' = 0
                  /\ response' = NoResponse

\* res.json() settles: the rest of fetchTraces and of onLoadClick
JsonSettled ==
    /\ pc = "awaitJson"
    /\ CASE response.body.shape = "invalid" ->
              /\ CatchFinally("Unexpected token")
              /\ UNCHANGED <<allItems, currentPage>>
         [] response.body.shape = "null" ->
              /\ CatchFinally("Cannot read properties of null")
              /\ UNCHANGED <<allItems, currentPage>>
         [] OTHER ->
              LET items == TracesOf(response.body)
                  v == RenderLoaded(View, items)
              IN  /\ allItems' = items
                  /\ currentPage' = 1
                  /\ SetView(Finally(v))
                  /\ SetNS(IF v.error # ""
                           THEN showError(NS, v.error)
                           ELSE showSuccess(NS, "Loaded " \o ToString(Len(items)) \o " traces"))
                  /\ isLoading' = FALSE
                  /\ pc' = "idle"
                  /\ fetchLimit' = 0
                  /\ response' = NoResponse

\* click on the next-page button
goToNextPage ==
    /\ currentPage < Ceil(Len(allItems), ROWS_PER_PAGE)
    /\ currentPage' = currentPage + 1
    /\ SetView(updateTable([View EXCEPT !.hist.navigated = @ \/ pc # "idle"],
                            allItems, currentPage + 1, ROWS_PER_PAGE))
    /\ UNCHANGED <<notifications, container, elems, removalQueue, allItems, isLoading,
                   pc, fetchLimit, response>>

\* click on the previous-page button
goToPrevPage ==
    /\ currentPage > 1
    /\ currentPage' = currentPage - 1
    /\ SetView(updateTable([View EXCEPT !.hist.navigated = @ \/ pc # "idle"],
                            allItems, currentPage - 1, ROWS_PER_PAGE))
    /\ UNCHANGED <<notifications, container, elems, removalQueue, allItems, isLoading,
                   pc, fetchLimit, response>>

\* the options the user picks in the two metric selects
YMetrics == {"avgLatency", "totalCalls"}
ModelMetrics == {"calls", "tokens"}

\* change event of the yMetric select
YMetricChange ==
    \E m \in YMetrics \ {dom.yMetric} :
       /\ SetView(updateChart([View EXCEPT !.dom.yMetric = m], allItems))
       /\ UNCHANGED <<notifications, container, elems, removalQueue, allItems,
                      currentPage, isLoading, pc, fetchLimit, response>>

\* change event of the modelMetric select
ModelMetricChange ==
    \E m \in ModelMetrics \ {dom.modelMetric} :
       /\ SetView(updateModelChart([View EXCEPT !.dom.modelMetric = m], allItems))
       /\ UNCHANGED <<notifications, container, elems, removalQueue, allItems,
                      currentPage, isLoading, pc, fetchLimit, response>>

\* the user edits the limit input
TypeLimit ==
    \E s \in LimitSamples \ {dom.limitValue} :
       /\ dom' = [dom EXCEPT !.limitValue = s]
       /\ UNCHANGED <<notifications, container, elems, removalQueue, allItems,
                      currentPage, isLoading, latencyChart, modelChart, pc,
                      fetchLimit, response, hist>>

DashNext ==
    \/ OnLoadClick
    \/ FetchRejected
    \/ FetchResponded
    \/ JsonSettled
    \/ goToNextPage
    \/ goToPrevPage
    \/ YMetricChange
    \/ ModelMetricChange
    \/ TypeLimit

(***************************************************************************)
(* Specifications.                                                         *)
(***************************************************************************)
Init == NotifInit /\ DashInit

Next == NotifNext \/ DashNext

\* the whole page
Spec == Init /\ [][Next]_vars

\* the notification manager driven through its API, its close controls and
\* its timers
SpecNotif == Init /\ [][NotifNext]_vars

\* the dashboard driven by its user and the network; the timers of the
\* notifications it shows touch no dashboard state and stay pending
SpecDash == Init /\ [][DashNext]_vars

\* onLoadClick for every content of the limit input, with a failing network
LimitInit == NotifInit /\ \E s \in LimitInputs : DashInitWith(s)

LimitNext == OnLoadClick \/ FetchRejected

SpecLimit == LimitInit /\ [][LimitNext]_vars

\* the notification API called with every type, through showNotification and
\* through the convenience functions, and the timers of what it shows
SpecTitle == Init /\ [][TitleNext]_vars

\* a call updatePaginationControls(totalItems, page, perPage) on the document
\* as it is
CallPagination(totalItems, page, perPage) ==
    /\ SetView(updatePaginationControls(View, totalItems, page, perPage))
    /\ UNCHANGED <<notifications, container, elems, removalQueue, allItems,
                   currentPage, isLoading, pc, fetchLimit, response>>

\* page sizes handed to updatePaginationControls: the smallest ones and the
\* one the dashboard uses
PerPages == {1, 2, ROWS_PER_PAGE}

PaginationCall ==
    \E totalItems \in 0..MaxItems, page \in 1..MaxPage, perPage \in PerPages :
       CallPagination(totalItems, page, perPage)

\* updatePaginationControls called again and again with every argument triple
SpecPagination == Init /\ [][PaginationCall]_vars

(***************************************************************************)
(* Properties.                                                             *)
(***************************************************************************)
\* the element created by the step, when the step shows exactly one notification
ShownOne == Len(elems') = Len(elems) + 1
Newest == elems'[Len(elems')]

\* C1: in every reachable state the tracking list holds at most
\* maxNotifications (5) notifications.
C1_AtMostFiveTracked == Len(notifications) <= maxNotifications

\* a call of onLoadClick while a load is pending / while none is
RejectedClick == isLoading /\ hist'.loadClicks = hist.loadClicks + 1
AcceptedClick == ~isLoading /\ hist'.loadClicks = hist.loadClicks + 1

\* C2: a call of onLoadClick while a load is pending shows one warning
\* notification, issues no request and leaves allItems, currentPage,
\* isLoading, the limit input and the load button unchanged; it is dropped,
\* not queued: a request is only ever issued by a call made while no load is
\* pending.
C2_RejectedLoadHasNoEffect ==
    [][ /\ RejectedClick =>
             /\ ShownOne /\ Newest.type = "warning"
             /\ hist'.fetchCount = hist.fetchCount
             /\ pc' = pc /\ fetchLimit' = fetchLimit
             /\ allItems' = allItems /\ currentPage' = currentPage
             /\ isLoading' = isLoading /\ dom' = dom
        /\ hist'.fetchCount # hist.fetchCount =>
             AcceptedClick /\ hist'.fetchCount = hist.fetchCount + 1 ]_vars

\* a second call was rejected, the first load has finished, and one request
\* was issued in all
C2_Witness == hist.loadClicks = 2 /\ hist.fetchCount = 1 /\ pc = "idle"

\* the step in which a load ends by showing an error notification
LoadEndsInError == pc # "idle" /\ pc' = "idle" /\ ShownOne /\ Newest.type = "error"

\* C3: whenever a load ends by showing an error notification, allItems and
\* currentPage have the values they had when that load began.
C3_FailureLeavesStateUntouched ==
    [][ LoadEndsInError =>
          /\ allItems' = hist.loadStart.items
          /\ currentPage' = hist.loadStart.page ]_vars

\* C4: isLoading is true exactly while onLoadClick is suspended on its
\* request; the request can only move on towards idle (from fetch() to
\* res.json() or to idle, from res.json() to idle); and the step that reaches
\* idle, on failure, non-success status, unreadable document, render
\* exception or success alike, clears isLoading, re-enables the button and
\* labels it 'Load'.
C4_LoadReturnsToIdle ==
    [][ /\ isLoading' <=> pc' # "idle"
        /\ (pc = "awaitFetch" /\ pc' # pc) => pc' \in {"awaitJson", "idle"}
        /\ (pc = "awaitJson" /\ pc' # pc) => pc' = "idle"
        /\ (pc # "idle" /\ pc' = "idle") =>
              ~isLoading' /\ ~dom'.btnDisabled /\ dom'.btnText = "Load" ]_vars

\* a load failed, and a later call of onLoadClick was accepted and finished too
C4_Witness ==
    /\ hist.fetchCount = 2 /\ pc = "idle" /\ ~isLoading /\ ~dom.btnDisabled
    /\ \E n \in 1..Len(elems) : elems[n].type = "error"

\* s without x
Without(s, x) == SelectSeq(s, LAMBDA y : y # x)

\* the step in which a removal timer fires
RemovalFired == Len(removalQueue') = Len(removalQueue) - 1

\* C5: a show call made while exactly 5 notifications are tracked dismisses the
\* oldest of them and no other (it gets the slide-out class and a removal
\* timer), appends the new one and leaves the other four as they are, in
\* order; a dismissed element keeps a removal timer for as long as it is
\* tracked; and when a removal timer fires, its element, and no other, is out
\* of the list and of the document, the others keeping their order.
C5_EvictsExactlyOldest ==
    [][ /\ (ShownOne /\ Len(notifications) = maxNotifications) =>
             /\ notifications' = Append(notifications, Len(elems) + 1)
             /\ elems'[notifications[1]].slideOut
             /\ removalQueue' = Append(removalQueue, [el |-> notifications[1], by |-> "evict"])
             /\ \A k \in 2..Len(notifications) : elems'[notifications[k]] = elems[notifications[k]]
        /\ \A n \in Range(notifications') :
             elems'[n].slideOut => n \in Queued(removalQueue')
        /\ RemovalFired =>
             /\ notifications' = Without(notifications, Head(removalQueue).el)
             /\ container' = Without(container, Head(removalQueue).el)
        /\ ~RemovalFired =>
             \A n \in Range(notifications) : n \in Range(notifications') ]_vars

\* a sixth notification was shown while five were tracked; the oldest is in
\* its exit transition
C5_Witness ==
    /\ Len(notifications) = maxNotifications + 1
    /\ [el |-> notifications[1], by |-> "evict"] \in Range(removalQueue)
    /\ elems[notifications[1]].slideOut

\* C6: allItems changes only in the step in which res.json() resolves, where it
\* becomes the list of the response and currentPage becomes 1; a request is
\* issued only by an accepted call of onLoadClick; and every render function
\* that ran in a step was handed the whole list held after that step.
C6_ListReplacedOnlyOnSuccess ==
    [][ /\ allItems' # allItems =>
             /\ pc = "awaitJson" /\ pc' = "idle"
             /\ response.ok /\ response.body.shape \notin {"null", "invalid"}
             /\ allItems' = IF response.body.shape \in {"array", "wrapped"}
                            THEN response.body.traces ELSE <<>>
             /\ currentPage' = 1
        /\ hist'.fetchCount # hist.fetchCount => AcceptedClick
        /\ hist'.rendered = allItems' ]_vars

\* a second load has replaced a non-empty list by another one, and the table
\* was rendered from the new list
C6_Witness ==
    /\ hist.fetchCount = 2 /\ pc = "idle"
    /\ Len(allItems) = ROWS_PER_PAGE + 1
    /\ hist.rendered = allItems /\ dom.kpiTotal = ROWS_PER_PAGE + 1
    /\ Len(dom.tableRows) = ROWS_PER_PAGE

\* the text is a decimal integer: an optional minus sign and digits only
IsIntegerText(s) ==
    LET d == IF s # <<>> /\ Head(s) = "-" THEN Tail(s) ELSE s
    IN  d # <<>> /\ \A i \in 1..Len(d) : IsDigit(d[i])
IntegerOf(s) ==
    IF Head(s) = "-" THEN 0 - DigitsValue(Tail(s)) ELSE DigitsValue(s)
\* the text holds a letter, or no digit at all
NonNumericText(s) ==
    \/ \E i \in 1..Len(s) : ~IsDigit(s[i]) /\ s[i] \notin {"-", "+", ".", " "}
    \/ \A i \in 1..Len(s) : ~IsDigit(s[i])

\* C7: for every content of the limit input the limit passed to fetchTraces is
\* in 1..200; an integer in 1..200 is used unchanged and without a warning; an
\* out-of-range or non-numeric content makes the load use 50, writes "50"
\* back to the input and shows a warning.
C7_LimitCorrection ==
    [][ AcceptedClick =>
          LET s == dom.limitValue
          IN  /\ fetchLimit' \in 1..MAX_LIMIT
              /\ (IsIntegerText(s) /\ IntegerOf(s) \in 1..MAX_LIMIT) =>
                    /\ fetchLimit' = IntegerOf(s)
                    /\ dom'.limitValue = s
                    /\ ShownOne /\ Newest.type = "info"
              /\ ((IsIntegerText(s) /\ IntegerOf(s) \notin 1..MAX_LIMIT) \/ NonNumericText(s)) =>
                    /\ fetchLimit' = DEFAULT_LIMIT
                    /\ dom'.limitValue = <<"5", "0">>
                    /\ Len(elems') = Len(elems) + 2
                    /\ elems'[Len(elems) + 1].type = "warning" ]_vars

\* the step in which a tracked element n leaves the tracking list
Leaves(n) == n \in Range(notifications) /\ n \notin Range(notifications')

\* C8 as claimed: a notification shown with duration 0 gets no auto-dismiss
\* timer and leaves the tracking list only through its close control or
\* dismissAll.
C8_PersistentLeavesOnlyManually ==
    [][ /\ \A n \in 1..Len(elems') : elems'[n].duration = 0 => ~elems'[n].autoTimer
        /\ \A n \in Range(notifications) :
              (elems[n].duration = 0 /\ Leaves(n)) =>
                 Head(removalQueue).by \in {"close", "dismissAll"} ]_vars

\* C8 as amended: a notification shown with duration 0 gets no auto-dismiss
\* timer and leaves the tracking list only through its close control,
\* dismissAll, or its eviction by a show call made while 5 or more are tracked.
C8_PersistentLeavesManuallyOrEvicted ==
    [][ /\ \A n \in 1..Len(elems') : elems'[n].duration = 0 => ~elems'[n].autoTimer
        /\ \A n \in Range(notifications) :
              (elems[n].duration = 0 /\ Leaves(n)) =>
                 /\ Head(removalQueue).el = n
                 /\ Head(removalQueue).by \in {"close", "dismissAll", "evict"} ]_vars

\* a persistent notification has left the tracking list (a second removal
\* timer of it is still pending)
C8_Witness ==
    \E n \in 1..Len(elems) :
       /\ elems[n].duration = 0
       /\ n \notin Range(notifications)
       /\ n \in Queued(removalQueue)

\* C9: a tracked notification shown with duration > 0 always has a timer of
\* its own pending (its auto-dismiss timer or a removal timer), so that it is
\* removed once the timers have fired; when its auto-dismiss timer fires while
\* it is tracked it is in its exit transition with a removal timer pending,
\* and that timer is never pending again; it is spliced out of the tracking
\* list at most once, by a removal timer of its own, after it got the
\* slide-out class, in the step that detaches it; and it never comes back.
C9_TimedNotificationRemovedOnce ==
    [][ \A n \in 1..Len(elems) :
           /\ (n \in Range(notifications') /\ elems'[n].duration > 0) =>
                 elems'[n].autoTimer \/ n \in Queued(removalQueue')
           /\ (elems[n].autoTimer /\ ~elems'[n].autoTimer /\ n \in Range(notifications)) =>
                 elems'[n].slideOut /\ n \in Queued(removalQueue')
           /\ ~elems[n].autoTimer => ~elems'[n].autoTimer
           /\ elems'[n].removals <= 1
           /\ n \notin Range(notifications) =>
                 n \notin Range(notifications') /\ n \notin Range(container')
           /\ Leaves(n) =>
                 /\ elems[n].slideOut
                 /\ Head(removalQueue).el = n
                 /\ n \notin Range(container')
                 /\ elems'[n].removals = 1 ]_vars

\* a timed notification was dismissed twice (by two of: its timer, its close
\* control, dismissAll, an eviction), has been removed, and its second
\* removal timer is still pending
C9_Witness ==
    \E n \in 1..Len(elems) :
       /\ elems[n].duration > 0
       /\ elems[n].removals = 1
       /\ n \notin Range(notifications) /\ n \notin Range(container)
       /\ n \in Queued(removalQueue)

\* the step called updateChart
ChartCalled == hist'.chartCall # hist.chartCall

\* C10: a latency chart instance exists iff the last call of updateChart got a
\* non-empty list; a call with an empty list destroys the instance and hides
\* the chart area; a call with a non-empty list constructs a new instance
\* when there is none and otherwise keeps the instance it found; nothing else
\* touches the instance.
C10_ChartLifecycle ==
    [][ /\ (latencyChart'.id # 0) <=> (hist'.lastChartArg = "nonempty")
        /\ (ChartCalled /\ hist'.lastChartArg = "empty") =>
              latencyChart' = NoChart /\ dom'.chartsHidden
        /\ (ChartCalled /\ hist'.lastChartArg = "nonempty") =>
              /\ ~dom'.chartsHidden
              /\ IF latencyChart.id = 0
                 THEN latencyChart'.id > hist.chartsBuilt
                 ELSE latencyChart'.id = latencyChart.id
        /\ ~ChartCalled => latencyChart' = latencyChart ]_vars

\* charts were constructed by a load and destroyed by a later load of an
\* empty list
C10_Witness ==
    /\ latencyChart = NoChart /\ modelChart = NoModelChart
    /\ hist.lastChartArg = "empty" /\ hist.chartsBuilt = 2
    /\ hist.fetchCount = 2 /\ dom.chartsHidden

\* the step is a call showNotification(message, type[, null, duration]) that
\* passes no title
UntitledShow(type) ==
    \E duration \in Durations :
       SetNS(showNotification(NS, "msg", type, NullTitle, duration))

\* C11: a notification shown without an explicit title, through
\* showNotification or through the convenience function of its type, carries
\* the default title of the type: Success, Error, Warning, Information.
C11_DefaultTitleByType ==
    [][ /\ (UntitledShow("success") \/ ApiShowSuccess) =>
              Newest.type = "success" /\ Newest.title = "Success"
        /\ (UntitledShow("error") \/ ApiShowError) =>
              Newest.type = "error" /\ Newest.title = "Error"
        /\ (UntitledShow("warning") \/ ApiShowWarning) =>
              Newest.type = "warning" /\ Newest.title = "Warning"
        /\ (UntitledShow("info") \/ ApiShowInfo) =>
              Newest.type = "info" /\ Newest.title = "Information" ]_vars

\* ceil(a / b) for a >= 0, b >= 1: the least n with n * b >= a
CeilDiv(a, b) == CHOOSE n \in 0..a : n * b >= a /\ \A m \in 0..(n - 1) : m * b < a

\* C12 as claimed: for totalItems >= 0, page >= 1, perPage >= 1 the call hides
\* the pagination controls iff ceil(totalItems/perPage) <= 1; otherwise it
\* shows them with previous disabled iff page = 1 and next disabled iff
\* page = ceil(totalItems/perPage).
C12_PaginationNextAtLastPage ==
    [][ \A totalItems \in 0..MaxItems, page \in 1..MaxPage, perPage \in PerPages :
          CallPagination(totalItems, page, perPage) =>
             LET totalPages == CeilDiv(totalItems, perPage)
             IN  /\ dom'.paginationHidden <=> totalPages <= 1
                 /\ ~dom'.paginationHidden =>
                       /\ dom'.prevDisabled <=> page = 1
                       /\ dom'.nextDisabled <=> page = totalPages ]_vars

\* C12 as amended: for totalItems >= 0, page >= 1, perPage >= 1 the call hides
\* the pagination controls iff ceil(totalItems/perPage) <= 1; otherwise it
\* shows them with previous disabled iff page = 1 and next disabled iff
\* page >= ceil(totalItems/perPage).
C12_PaginationNextFromLastPage ==
    [][ \A totalItems \in 0..MaxItems, page \in 1..MaxPage, perPage \in PerPages :
          CallPagination(totalItems, page, perPage) =>
             LET totalPages == CeilDiv(totalItems, perPage)
             IN  /\ dom'.paginationHidden <=> totalPages <= 1
                 /\ ~dom'.paginationHidden =>
                       /\ dom'.prevDisabled <=> page = 1
                       /\ dom'.nextDisabled <=> page >= totalPages ]_vars

\* the controls are shown for a page beyond the last one, with next disabled
\* and previous enabled
C12_Witness ==
    /\ ~dom.paginationHidden
    /\ dom.pageInfo[1] > dom.pageInfo[2]
    /\ dom.nextDisabled /\ ~dom.prevDisabled

\* the number of table pages of the list held, at least one
LastPage == IF Len(allItems) = 0 THEN 1 ELSE CeilDiv(Len(allItems), ROWS_PER_PAGE)

\* C13: in every reachable state 1 <= currentPage <= max(1,
\* ceil(length(allItems) / 10)), also when a load that shrinks the list
\* completes after page clicks made during its fetch.
C13_PageWithinRange == 1 <= currentPage /\ currentPage <= LastPage

\* the user clicked a page button while a second load was in flight, which
\* left the table on page 2 of 2, and that load has completed with a list of
\* one page
C13_Witness ==
    /\ hist.fetchCount = 2 /\ pc = "idle" /\ hist.navigated
    /\ dom.pageInfo = <<2, 2>>
    /\ Len(allItems) = 1 /\ currentPage = 1

\* C14: the tracking list and the children of the notification container are
\* the same elements in the same order in every reachable state; a show call
\* appends its element to both in one step; a removal timer takes its element,
\* and nothing else, out of both in one step, and takes nothing out when the
\* element is already gone (it was dismissed more than once); no other step
\* changes either.
C14_ListMirrorsContainer ==
    [][ /\ notifications = container
        /\ notifications' = container'
        /\ ShownOne =>
              /\ notifications' = Append(notifications, Len(elems'))
              /\ container' = Append(container, Len(elems'))
        /\ RemovalFired =>
              /\ notifications' = Without(notifications, Head(removalQueue).el)
              /\ container' = Without(container, Head(removalQueue).el)
              /\ Head(removalQueue).el \notin Range(notifications) =>
                    notifications' = notifications /\ container' = container
        /\ (~ShownOne /\ ~RemovalFired) =>
              notifications' = notifications /\ container' = container ]_vars

\* an element that was dismissed twice has been removed from both, its second
\* removal timer is the next to fire, and other elements are tracked and
\* attached
C14_Witness ==
    /\ removalQueue # <<>>
    /\ Head(removalQueue).el \notin Range(notifications)
    /\ Head(removalQueue).el \notin Range(container)
    /\ elems[Head(removalQueue).el].removals = 1
    /\ Len(notifications) >= 2 /\ notifications = container
=============================================================================
